---- MODULE Spec2Model ----
(***************************************************************************)
(* Model of the Binairo server of src/main.go: the grid, the constraint    *)
(* checker isValid, the backtracking solver solveBinairo, the validator    *)
(* validateBinairo and the four HTTP handlers (generate, solve, validate,  *)
(* toggleCell), together with the client-side toggleCell of index.html.    *)
(*                                                                         *)
(* A grid is a function 0..n-1 -> 0..n-1 -> Cell.  A Cell is a record      *)
(* [Value, ReadOnly]; Value models the Go pointer *int: <<>> is nil and    *)
(* <<v>> is a pointer to the integer v.                                    *)
(***************************************************************************)
EXTENDS Integers, Sequences, FiniteSets, TLC

VARIABLES
    pc,                 \* "idle" | "solve_call" | "solve_ret" | "removing" | "done"
    op,                 \* the handler serving the request
    origin,             \* "direct": an HTTP request; "page": posted from the page
    sizeStr,            \* the request's gridSize field
    rowStr, colStr,     \* the request's row and col fields (toggleCell)
    form,               \* the request's cell-i-j fields (solve, validate)
    size,               \* the handler's size
    grid,               \* the handler's grid
    stack,              \* the pending calls of the closure solve()
    ret,                \* what the last finished call of solve() returned
    numCellsToRemove,   \* generate's loop counter
    rng,                \* the state of the random generator
    err,                \* the error of parseGridFromRequest ("" is nil)
    resp,               \* the response: its status and what its body is
    page                \* the client's #grid-container: the rendered cells

vars == <<pc, op, origin, sizeStr, rowStr, colStr, form, size, grid, stack,
          ret, numCellsToRemove, rng, err, resp, page>>

----------------------------------------------------------------------------
(* Bounds of the model *)

\* generate is explored for the sizes up to MaxSize
MaxSize == 8
\* direct solve and validate requests are explored for the sizes up to
\* MaxFormSize
MaxFormSize == 3
\* a direct solve or validate request fills at most MaxEdits fields
MaxEdits == 2
\* the seeds explored for time.Now().UnixNano() are 0..MaxSeed
MaxSeed == 7
\* the validate requests of SpecFull fill the first MaxPrefix fields (all of
\* them when the grid has no more) with "0" or "1", for the sizes up to
\* MaxFullSize
MaxPrefix == 16
MaxFullSize == 4
\* the page of the toggle scenario has side 1..MaxPageSize
MaxPageSize == 2
\* the solver's termination is explored for generate up to MaxLiveSize
MaxLiveSize == 7

----------------------------------------------------------------------------
(* Strings and strconv *)

Digit(d) ==
    CASE d = 0 -> "0" [] d = 1 -> "1" [] d = 2 -> "2" [] d = 3 -> "3"
      [] d = 4 -> "4" [] d = 5 -> "5" [] d = 6 -> "6" [] d = 7 -> "7"
      [] d = 8 -> "8" [] d = 9 -> "9"

RECURSIVE Itoa(_)
\* strconv.Itoa and the %d verb: the decimal text of an integer
Itoa(n) ==
    IF n < 0 THEN "-" \o Itoa(-n)
    ELSE IF n < 10 THEN Digit(n)
    ELSE Itoa(n \div 10) \o Digit(n % 10)

\* the integers whose decimal text a request of the model may carry
AtoiRange == -9..99

\* the decimal texts of these integers, each with the integer it denotes
AtoiTable ==
    LET text == [n \in AtoiRange |-> Itoa(n)]
    IN  [s \in {text[n] : n \in AtoiRange} |-> CHOOSE n \in AtoiRange : text[n] = s]

\* strconv.Atoi: the value and whether the text failed to parse; Go returns 0
\* with the error
Atoi(s) ==
    IF s \in DOMAIN AtoiTable
    THEN [val |-> AtoiTable[s], err |-> FALSE]
    ELSE [val |-> 0, err |-> TRUE]

----------------------------------------------------------------------------
(* Grid *)

Nil == <<>>
Ptr(v) == <<v>>
Deref(p) == p[1]

\* len(grid)
Len0(g) == Cardinality(DOMAIN g)

\* &Cell{}: no value, not read-only
NewCell == [Value |-> Nil, ReadOnly |-> FALSE]

\* createGrid(size), for size >= 0 (make panics on a negative length)
createGrid(n) == [i \in 0..(n - 1) |-> [j \in 0..(n - 1) |-> NewCell]]

\* grid[i][j].Value = p
SetValue(g, i, j, p) == [g EXCEPT ![i][j].Value = p]

----------------------------------------------------------------------------
(* Constraint checker *)

\* countOccurrences(slice, value)
countOccurrences(slice, value) ==
    Cardinality({i \in DOMAIN slice : slice[i] = value})

\* the Go slice expression s[lo:hi] of a 0-indexed slice, as a sequence
Slice(s, lo, hi) == [k \in 1..(hi - lo) |-> s[lo + k - 1]]

\* isSame(a, b)
isSame(a, b) ==
    IF Len(a) # Len(b) THEN FALSE
    ELSE \A i \in 1..Len(a) : a[i] = b[i]

\* isValid without its count policy (the two countOccurrences tests): only the
\* windows of three are checked
isValidNoCount(g, row, col, value) ==
    LET n == Len0(g)
        rowRead == [i \in 0..(n - 1) |->
                      IF g[row][i].Value # Nil THEN Deref(g[row][i].Value) ELSE -1]
        colRead == [i \in 0..(n - 1) |->
                      IF g[i][col].Value # Nil THEN Deref(g[i][col].Value) ELSE -1]
        rowValues == [rowRead EXCEPT ![col] = value]
        colValues == [colRead EXCEPT ![row] = value]
        vvv == <<value, value, value>>
    IN  ~ \/ (col > 1 /\ isSame(Slice(rowValues, col - 2, col + 1), vvv))
          \/ (col < n - 2 /\ isSame(Slice(rowValues, col, col + 3), vvv))
          \/ (row > 1 /\ isSame(Slice(colValues, row - 2, row + 1), vvv))
          \/ (row < n - 2 /\ isSame(Slice(colValues, row, row + 3), vvv))

\* isValid(grid, row, col, value)
isValid(g, row, col, value) ==
    LET n == Len0(g)
        rowRead == [i \in 0..(n - 1) |->
                      IF g[row][i].Value # Nil THEN Deref(g[row][i].Value) ELSE -1]
        colRead == [i \in 0..(n - 1) |->
                      IF g[i][col].Value # Nil THEN Deref(g[i][col].Value) ELSE -1]
        rowValues == [rowRead EXCEPT ![col] = value]
        colValues == [colRead EXCEPT ![row] = value]
        vvv == <<value, value, value>>
    IN  IF countOccurrences(rowValues, value) > n \div 2
           \/ countOccurrences(colValues, value) > n \div 2
        THEN FALSE
        ELSE IF \/ (col > 1 /\ isSame(Slice(rowValues, col - 2, col + 1), vvv))
                \/ (col < n - 2 /\ isSame(Slice(rowValues, col, col + 3), vvv))
                \/ (row > 1 /\ isSame(Slice(colValues, row - 2, row + 1), vvv))
                \/ (row < n - 2 /\ isSame(Slice(colValues, row, row + 3), vvv))
        THEN FALSE
        ELSE TRUE

----------------------------------------------------------------------------
(* Helpers of the backtracking solver *)

\* the row-major positions of the empty cells
EmptyPositions(g) ==
    LET n == Len0(g)
    IN  {k \in 0..(n * n - 1) : g[k \div n][k % n].Value = Nil}

Min(S) == CHOOSE m \in S : \A k \in S : m <= k

----------------------------------------------------------------------------
(* Validator *)

\* validateBinairo without the call of isValid: only emptiness is tested
validateBinairoNoCheck(g, n) ==
    \A i \in 0..(n - 1) : \A j \in 0..(n - 1) : ~ (g[i][j].Value = Nil)

\* validateBinairo(grid, size)
validateBinairo(g, n) ==
    \A i \in 0..(n - 1) : \A j \in 0..(n - 1) :
        ~ (g[i][j].Value = Nil \/ ~ isValid(g, i, j, Deref(g[i][j].Value)))

----------------------------------------------------------------------------
(* Requests, rendering and parsing *)

Cells(n) == (0..(n - 1)) \X (0..(n - 1))

\* r.FormValue(name): "" for a field the request does not carry
FormValue(f, i, j) == IF <<i, j>> \in DOMAIN f THEN f[<<i, j>>] ELSE ""

\* renderCellHTML(cell, row, col, gridSize): the value attribute (%d of the
\* value, "" for nil) and whether the input is rendered readonly
renderCellHTML(cell) ==
    [value    |-> IF cell.Value # Nil THEN Itoa(Deref(cell.Value)) ELSE "",
     readonly |-> cell.ReadOnly]

\* renderGridHTML(grid): the rendering of every cell
renderGridHTML(g) ==
    [c \in Cells(Len0(g)) |-> renderCellHTML(g[c[1]][c[2]])]

\* what hx-include="#grid-container" posts: the value of every input
FormOfPage(p) == [c \in DOMAIN p |-> p[c].value]

\* the loop body of parseGridFromRequest for one cell: the cell and whether
\* strconv.Atoi failed on it
ParseCell(f, i, j) ==
    LET cellValue == FormValue(f, i, j)
        a == Atoi(cellValue)
    IN  IF cellValue # ""
        THEN [cell |-> [NewCell EXCEPT !.Value = Ptr(a.val)], err |-> a.err]
        ELSE [cell |-> NewCell, err |-> FALSE]

\* parseGridFromRequest(r): (grid, size, err); <<>> is the nil grid
parseGridFromRequest(s, f) ==
    LET a == Atoi(s)
        n == a.val
        parsed == [i \in 0..(n - 1) |-> [j \in 0..(n - 1) |-> ParseCell(f, i, j)]]
    IN  IF a.err \/ n <= 0
        THEN [grid |-> <<>>, size |-> 0, err |-> "invalid grid size"]
        ELSE IF \E i \in 0..(n - 1) : \E j \in 0..(n - 1) : parsed[i][j].err
        THEN [grid |-> <<>>, size |-> 0, err |-> "invalid cell value"]
        ELSE [grid |-> [i \in 0..(n - 1) |-> [j \in 0..(n - 1) |-> parsed[i][j].cell]],
              size |-> n, err |-> ""]

----------------------------------------------------------------------------
(* The random generator: math/rand is abstracted by a Lehmer generator     *)
(* modulo the prime 1021; all the loop of generateHandler relies on is     *)
(* that every draw is a coordinate in 0..size-1.                           *)

\* rand.Seed(seed)
Seed(seed) == (seed % 1020) + 1

\* the generator's next state
rngNext(r) == (r * 10) % 1021

\* rand.Intn(n) in generator state r
Intn(r, n) == (r - 1) % n

----------------------------------------------------------------------------
(* The inputs the model explores *)

NonEmptyStrings == {"0", "1", "2", "x"}

\* gridSize fields: missing, not a number, negative, zero and 1..maxN
SizeStrings(maxN) == {"", "x"} \cup {Itoa(n) : n \in (-1)..maxN}

\* the forms for an n x n grid with at most MaxEdits fields filled
SparseForms(n) ==
    UNION {
        { [c \in Cells(n) |-> IF c \in S THEN a[c] ELSE ""] : a \in [S -> NonEmptyStrings] }
        : S \in {T \in SUBSET Cells(n) : Cardinality(T) <= MaxEdits} }

\* the forms explored with the gridSize field s
DirectForms(s) ==
    LET a == Atoi(s)
    IN  IF a.err \/ a.val <= 0 THEN {<<>>} ELSE SparseForms(a.val)

\* the forms for an n x n grid whose first MaxPrefix fields hold "0" or "1"
PrefixForms(n) ==
    LET filled == {c \in Cells(n) : c[1] * n + c[2] < MaxPrefix}
    IN  { [c \in Cells(n) |-> IF c \in filled THEN a[c] ELSE ""] : a \in [filled -> {"0", "1"}] }

\* row and col fields of a toggleCell request
IndexStrings == {"x"} \cup {Itoa(k) : k \in (-1)..MaxPageSize}

----------------------------------------------------------------------------
(* Initial state: the server holds no grid between requests; the page is   *)
(* the blank grid updateGrid() builds on DOMContentLoaded.                 *)

DefaultGridSize == 6

\* updateGrid(): size x size inputs with value ""
updateGrid(n) == [c \in Cells(n) |-> [value |-> "", readonly |-> FALSE]]

NoResp == [status |-> 0, body |-> "none"]

Idle(p) ==
    /\ pc = "idle"
    /\ op = "none"
    /\ origin = "direct"
    /\ sizeStr = ""
    /\ rowStr = ""
    /\ colStr = ""
    /\ form = <<>>
    /\ size = 0
    /\ grid = <<>>
    /\ stack = <<>>
    /\ ret = FALSE
    /\ numCellsToRemove = 0
    /\ rng = 0
    /\ err = ""
    /\ resp = NoResp
    /\ page = p

\* the step into that state
BecomeIdle(p) ==
    /\ pc' = "idle"
    /\ op' = "none"
    /\ origin' = "direct"
    /\ sizeStr' = ""
    /\ rowStr' = ""
    /\ colStr' = ""
    /\ form' = <<>>
    /\ size' = 0
    /\ grid' = <<>>
    /\ stack' = <<>>
    /\ ret' = FALSE
    /\ numCellsToRemove' = 0
    /\ rng' = 0
    /\ err' = ""
    /\ resp' = NoResp
    /\ page' = p

Init == Idle(updateGrid(DefaultGridSize))

----------------------------------------------------------------------------
(* solveBinairo, one call or return of the closure solve() per step *)

\* the calls of solve() are those of a handler that runs the solver
Solving == pc \in {"solve_call", "solve_ret"}

\* a call of solve() starts: scan for the first empty cell and try 0, then 1
SolveCall ==
    /\ pc = "solve_call"
    /\ LET empties == EmptyPositions(grid)
           k == Min(empties)
           i == k \div size
           j == k % size
       IN  IF empties = {}
           THEN /\ ret' = TRUE
                /\ pc' = "solve_ret"
                /\ UNCHANGED <<grid, stack>>
           ELSE IF isValid(grid, i, j, 0)
           THEN /\ grid' = SetValue(grid, i, j, Ptr(0))
                /\ stack' = Append(stack, [i |-> i, j |-> j, val |-> 0])
                /\ UNCHANGED <<pc, ret>>
           ELSE IF isValid(grid, i, j, 1)
           THEN /\ grid' = SetValue(grid, i, j, Ptr(1))
                /\ stack' = Append(stack, [i |-> i, j |-> j, val |-> 1])
                /\ UNCHANGED <<pc, ret>>
           ELSE /\ ret' = FALSE
                /\ pc' = "solve_ret"
                /\ UNCHANGED <<grid, stack>>
    /\ UNCHANGED <<op, origin, sizeStr, rowStr, colStr, form, size,
                   numCellsToRemove, rng, err, resp, page>>

\* SolveReturn without the undo "grid[i][j].Value = nil" of a failed value
SolveReturnNoUndo ==
    /\ pc = "solve_ret"
    /\ stack # <<>>
    /\ LET fr == stack[Len(stack)]
           rest == SubSeq(stack, 1, Len(stack) - 1)
           undone == SetValue(grid, fr.i, fr.j, Nil)
       IN  IF ret
           THEN /\ stack' = rest
                /\ UNCHANGED <<grid, ret, pc>>
           ELSE IF fr.val = 0 /\ isValid(undone, fr.i, fr.j, 1)
           THEN /\ grid' = SetValue(undone, fr.i, fr.j, Ptr(1))
                /\ stack' = Append(rest, [i |-> fr.i, j |-> fr.j, val |-> 1])
                /\ pc' = "solve_call"
                /\ UNCHANGED ret
           ELSE /\ stack' = rest
                /\ UNCHANGED <<grid, ret, pc>>
    /\ UNCHANGED <<op, origin, sizeStr, rowStr, colStr, form, size,
                   numCellsToRemove, rng, err, resp, page>>

\* a call of solve() returns to the call that made it, at "if solve()"
SolveReturn ==
    /\ pc = "solve_ret"
    /\ stack # <<>>
    /\ LET fr == stack[Len(stack)]
           rest == SubSeq(stack, 1, Len(stack) - 1)
           undone == SetValue(grid, fr.i, fr.j, Nil)
       IN  IF ret
           THEN /\ stack' = rest
                /\ UNCHANGED <<grid, ret, pc>>
           ELSE IF fr.val = 0 /\ isValid(undone, fr.i, fr.j, 1)
           THEN /\ grid' = SetValue(undone, fr.i, fr.j, Ptr(1))
                /\ stack' = Append(rest, [i |-> fr.i, j |-> fr.j, val |-> 1])
                /\ pc' = "solve_call"
                /\ UNCHANGED ret
           ELSE /\ grid' = undone
                /\ stack' = rest
                /\ UNCHANGED <<ret, pc>>
    /\ UNCHANGED <<op, origin, sizeStr, rowStr, colStr, form, size,
                   numCellsToRemove, rng, err, resp, page>>

----------------------------------------------------------------------------
(* generateHandler *)

GenerateRequest(s) ==
    /\ pc = "idle"
    /\ op' = "generate"
    /\ sizeStr' = s
    /\ LET a == Atoi(s)
       IN  IF a.err \/ a.val <= 0
           THEN /\ resp' = [status |-> 400, body |-> "Invalid grid size"]
                /\ pc' = "done"
                /\ UNCHANGED <<size, grid>>
           ELSE /\ size' = a.val
                /\ grid' = createGrid(a.val)
                /\ pc' = "solve_call"
                /\ UNCHANGED resp
    /\ UNCHANGED <<origin, rowStr, colStr, form, stack, ret, numCellsToRemove,
                   rng, err, page>>

\* solveBinairo has returned: seed the generator and set the loop counter
GenerateSeed(seed) ==
    /\ pc = "solve_ret"
    /\ stack = <<>>
    /\ op = "generate"
    /\ rng' = Seed(seed)
    /\ numCellsToRemove' = (size * size) \div 2
    /\ pc' = "removing"
    /\ UNCHANGED <<op, origin, sizeStr, rowStr, colStr, form, size, grid,
                   stack, ret, err, resp, page>>

\* one pass of the removal loop
GenerateDraw ==
    /\ pc = "removing"
    /\ numCellsToRemove > 0
    /\ LET r1 == rngNext(rng)
           r2 == rngNext(r1)
           i == Intn(r1, size)
           j == Intn(r2, size)
       IN  /\ rng' = r2
           /\ IF grid[i][j].Value # Nil
              THEN /\ grid' = [grid EXCEPT ![i][j] = [Value |-> Nil, ReadOnly |-> FALSE]]
                   /\ numCellsToRemove' = numCellsToRemove - 1
              ELSE UNCHANGED <<grid, numCellsToRemove>>
    /\ UNCHANGED <<pc, op, origin, sizeStr, rowStr, colStr, form, size, stack,
                   ret, err, resp, page>>

\* the loop has ended: render the grid; htmx swaps it into #grid-container
GenerateRespond ==
    /\ pc = "removing"
    /\ ~ (numCellsToRemove > 0)
    /\ resp' = [status |-> 200, body |-> "grid"]
    /\ page' = renderGridHTML(grid)
    /\ pc' = "done"
    /\ UNCHANGED <<op, origin, sizeStr, rowStr, colStr, form, size, grid,
                   stack, ret, numCellsToRemove, rng, err>>

----------------------------------------------------------------------------
(* solveHandler *)

SolveHandler(s, f, org) ==
    /\ op' = "solve"
    /\ origin' = org
    /\ sizeStr' = s
    /\ form' = f
    /\ LET p == parseGridFromRequest(s, f)
       IN  /\ err' = p.err
           /\ IF p.err # ""
              THEN /\ resp' = [status |-> 400, body |-> "Invalid grid data"]
                   /\ pc' = "done"
                   /\ grid' = <<>>
                   /\ size' = 0
              ELSE /\ grid' = p.grid
                   /\ size' = Len0(p.grid)
                   /\ pc' = "solve_call"
                   /\ resp' = NoResp
    /\ stack' = <<>>
    /\ ret' = FALSE
    /\ UNCHANGED <<rowStr, colStr, numCellsToRemove, rng, page>>

\* a solve request with any fields
SolveRequest(s, f) ==
    /\ pc = "idle"
    /\ SolveHandler(s, f, "direct")

\* the Solve button after a generated puzzle: hx-include posts #gridSize and
\* the inputs of #grid-container
SolvePage ==
    /\ pc = "done"
    /\ op = "generate"
    /\ resp.status = 200
    /\ SolveHandler(sizeStr, FormOfPage(page), "page")

\* solveBinairo has returned: render the grid into #solved-grid-container
SolveRespond ==
    /\ pc = "solve_ret"
    /\ stack = <<>>
    /\ op = "solve"
    /\ resp' = [status |-> 200, body |-> "grid"]
    /\ pc' = "done"
    /\ UNCHANGED <<op, origin, sizeStr, rowStr, colStr, form, size, grid,
                   stack, ret, numCellsToRemove, rng, err, page>>

----------------------------------------------------------------------------
(* validateHandler *)

ValidateRequest(s, f) ==
    /\ pc = "idle"
    /\ op' = "validate"
    /\ sizeStr' = s
    /\ form' = f
    /\ LET p == parseGridFromRequest(s, f)
       IN  /\ err' = p.err
           /\ grid' = p.grid
           /\ size' = p.size
           /\ resp' = IF p.err # ""
                      THEN [status |-> 400, body |-> "Invalid grid data"]
                      ELSE IF validateBinairo(p.grid, p.size)
                      THEN [status |-> 200, body |-> "valid"]
                      ELSE [status |-> 200, body |-> "invalid"]
    /\ pc' = "done"
    /\ UNCHANGED <<origin, rowStr, colStr, stack, ret, numCellsToRemove, rng,
                   page>>

----------------------------------------------------------------------------
(* toggleCellHandler and the client's toggleCell *)

\* the toggle of toggleCellHandler on one cell
ToggleServer(cell) ==
    IF cell.Value = Nil THEN [cell EXCEPT !.Value = Ptr(0)]
    ELSE IF Deref(cell.Value) = 0 THEN [cell EXCEPT !.Value = Ptr(1)]
    ELSE [cell EXCEPT !.Value = Nil]

\* the handler panics when make gets a negative length or an index is out of
\* range (net/http recovers and drops the connection); a read-only cell gets
\* an empty response; else the cell is toggled and its rendering replaces
\* the input on the page (hx-target="this", hx-swap="outerHTML")
ToggleCellRequest(r, c, s) ==
    /\ pc = "idle"
    /\ op' = "toggleCell"
    /\ rowStr' = r
    /\ colStr' = c
    /\ sizeStr' = s
    /\ LET row == Atoi(r).val
           col == Atoi(c).val
           n == Atoi(s).val
           g == createGrid(n)
           inRange == row \in 0..(n - 1) /\ col \in 0..(n - 1)
       IN  IF n < 0
           THEN /\ resp' = [status |-> 0, body |-> "panic"]
                /\ UNCHANGED <<size, grid, page>>
           ELSE /\ size' = n
                /\ IF ~ inRange
                   THEN /\ resp' = [status |-> 0, body |-> "panic"]
                        /\ grid' = g
                        /\ UNCHANGED page
                   ELSE IF g[row][col].ReadOnly
                   THEN /\ resp' = [status |-> 200, body |-> ""]
                        /\ grid' = g
                        /\ UNCHANGED page
                   ELSE /\ resp' = [status |-> 200, body |-> "cell"]
                        /\ grid' = [g EXCEPT ![row][col] = ToggleServer(g[row][col])]
                        /\ page' = IF <<row, col>> \in DOMAIN page
                                   THEN [page EXCEPT ![<<row, col>>] =
                                            renderCellHTML(ToggleServer(g[row][col]))]
                                   ELSE page
    /\ pc' = "done"
    /\ UNCHANGED <<origin, form, stack, ret, numCellsToRemove, rng, err>>

\* toggleCell(cellDiv) of the page's script; no cell of #grid-container
\* carries the class "readonly"
toggleCell(v) ==
    CASE v = ""  -> "0"
      [] v = "0" -> "1"
      [] v = "1" -> ""
      [] OTHER   -> v

ClientToggle(c) ==
    /\ pc = "idle"
    /\ c \in DOMAIN page
    /\ page' = [page EXCEPT ![c].value = toggleCell(page[c].value)]
    /\ UNCHANGED <<pc, op, origin, sizeStr, rowStr, colStr, form, size, grid,
                   stack, ret, numCellsToRemove, rng, err, resp>>

----------------------------------------------------------------------------
(* Between requests *)

\* the page is loaded again: nothing of the last request is left
Reload ==
    /\ pc = "done"
    /\ BecomeIdle(updateGrid(DefaultGridSize))

\* the user stays on the page: the server keeps nothing, the page is kept
Continue ==
    /\ pc = "done"
    /\ BecomeIdle(page)

----------------------------------------------------------------------------
(* Specifications *)

\* the requests a client may send while no request is being served
Generate == pc = "idle" /\ \E s \in SizeStrings(MaxSize) : GenerateRequest(s)

Solve ==
    pc = "idle" /\ \E s \in SizeStrings(MaxFormSize) : \E f \in DirectForms(s) :
        SolveRequest(s, f)

Validate ==
    pc = "idle" /\ \E s \in SizeStrings(MaxFormSize) : \E f \in DirectForms(s) :
        ValidateRequest(s, f)

ValidateFull ==
    pc = "idle" /\ \E n \in 1..MaxFullSize : \E f \in PrefixForms(n) :
        ValidateRequest(Itoa(n), f)

Toggle ==
    pc = "idle" /\ \E r \in IndexStrings, c \in IndexStrings :
        \E s \in SizeStrings(MaxPageSize) : ToggleCellRequest(r, c, s)

\* the four entry points, one request at a time
Next ==
    \/ Generate
    \/ \E seed \in 0..MaxSeed : GenerateSeed(seed)
    \/ GenerateDraw
    \/ GenerateRespond
    \/ Solve
    \/ SolvePage
    \/ SolveCall
    \/ SolveReturn
    \/ SolveRespond
    \/ Validate
    \/ Toggle
    \/ Reload

Spec == Init /\ [][Next]_vars

\* validate requests on filled grids
NextFull ==
    \/ ValidateFull
    \/ Reload

SpecFull == Init /\ [][NextFull]_vars

\* the user toggles cells of a small page, request after request
InitToggle == \E n \in 1..MaxPageSize : Idle(updateGrid(n))

NextToggle ==
    \/ Toggle
    \/ \E c \in Cells(MaxPageSize) : ClientToggle(c)
    \/ Continue

SpecToggle == InitToggle /\ [][NextToggle]_vars

\* the generate and solve requests, the two that run the solver; a handler's
\* goroutine keeps running, so a call or a return of solve() that can be taken
\* is taken
GenerateLive == pc = "idle" /\ \E s \in SizeStrings(MaxLiveSize) : GenerateRequest(s)

NextLive ==
    \/ GenerateLive
    \/ \E seed \in 0..MaxSeed : GenerateSeed(seed)
    \/ GenerateDraw
    \/ GenerateRespond
    \/ Solve
    \/ SolveCall
    \/ SolveReturn
    \/ SolveRespond
    \/ Reload

SpecLive ==
    Init /\ [][NextLive]_vars /\ WF_vars(SolveCall) /\ WF_vars(SolveReturn)

----------------------------------------------------------------------------
(* Properties *)

\* solveBinairo has returned to its handler
SolverReturned == pc = "solve_ret" /\ stack = <<>>

\* the grid the solver was started on
EntryGrid ==
    IF op = "generate" THEN createGrid(size)
    ELSE parseGridFromRequest(sizeStr, form).grid

\* the values of row i and of column j, -1 for an empty cell
RowOf(g, i) ==
    [j \in 0..(Len0(g) - 1) |->
        IF g[i][j].Value = Nil THEN -1 ELSE Deref(g[i][j].Value)]

ColOf(g, j) ==
    [i \in 0..(Len0(g) - 1) |->
        IF g[i][j].Value = Nil THEN -1 ELSE Deref(g[i][j].Value)]

\* the lines of a grid: its rows and its columns
Lines(g) ==
    {RowOf(g, i) : i \in 0..(Len0(g) - 1)} \cup {ColOf(g, j) : j \in 0..(Len0(g) - 1)}

NoEmptyCell(g) ==
    \A i \in 0..(Len0(g) - 1) : \A j \in 0..(Len0(g) - 1) : g[i][j].Value # Nil

\* every cell holds 0 or 1
FullBinary(g) ==
    \A i \in 0..(Len0(g) - 1) : \A j \in 0..(Len0(g) - 1) :
        g[i][j].Value \in {Ptr(0), Ptr(1)}

\* a line holds exactly n/2 zeros and n/2 ones
Balanced(line) ==
    LET n == Cardinality(DOMAIN line)
    IN  /\ Cardinality({k \in DOMAIN line : line[k] = 0}) * 2 = n
        /\ Cardinality({k \in DOMAIN line : line[k] = 1}) * 2 = n

\* a line holds three consecutive equal values
HasTriple(line) ==
    \E k \in DOMAIN line :
        /\ k + 2 \in DOMAIN line
        /\ line[k] # -1
        /\ line[k] = line[k + 1]
        /\ line[k] = line[k + 2]

\* the invariants of a solved grid
SolvedInvariants(g) ==
    \A line \in Lines(g) : Balanced(line) /\ ~ HasTriple(line)

\* solveBinairo was started on the all-empty grid
StartedEmpty == EntryGrid = createGrid(size)

\* C1: for every even n >= 4, solveBinairo started on the all-empty n x n
\* grid returns a grid with no empty cell, with exactly n/2 zeros and n/2 ones
\* in every row and column and with no three consecutive equal values in a
\* row or column, on which validateBinairo is true.
C1_SolveEmptyIsSolved ==
    (SolverReturned /\ StartedEmpty /\ size >= 4 /\ size % 2 = 0) =>
        /\ NoEmptyCell(grid)
        /\ SolvedInvariants(grid)
        /\ validateBinairo(grid, size)

\* the solver has returned from the all-empty 8 x 8 grid
C1_Witness ==
    SolverReturned /\ StartedEmpty /\ size = 8 /\ op = "generate" /\ ret

\* with value at position col, the line has a window of three cells equal to
\* value in which col is the first, the middle or the last cell
RunThrough(line, col, value) ==
    LET placed == [line EXCEPT ![col] = value]
    IN  \E k \in {col - 2, col - 1, col} :
            /\ k \in DOMAIN line
            /\ k + 2 \in DOMAIN line
            /\ \A m \in k..(k + 2) : placed[m] = value

\* the handler holds a grid
HoldsGrid == size > 0 /\ grid # <<>> /\ Len0(grid) = size

\* C2: isValid(grid, row, col, value) is false whenever, with value at
\* (row, col), a window of three consecutive cells of the row or of the
\* column that holds the position as its first, middle or last cell is all
\* equal to value.
C2_IsValidRejectsRuns ==
    HoldsGrid =>
        \A row \in 0..(size - 1) : \A col \in 0..(size - 1) : \A value \in {0, 1} :
            (RunThrough(RowOf(grid, row), col, value)
                \/ RunThrough(ColOf(grid, col), row, value))
            => ~ isValid(grid, row, col, value)

C4_GeneratedPuzzleSolves ==
    (SolverReturned /\ op = "solve" /\ origin = "page" /\ size >= 4 /\ size % 2 = 0) =>
        validateBinairo(grid, size)

\* C5: in the grid generate(n) returns, every cell that holds a value is
\* read-only and every emptied cell is not.
C5_GeneratedFixedFlags ==
    (op = "generate" /\ pc = "done" /\ resp.status = 200) =>
        \A i \in 0..(size - 1) : \A j \in 0..(size - 1) :
            grid[i][j].ReadOnly <=> (grid[i][j].Value # Nil)

\* the toggle cycle: empty -> 0 -> 1 -> empty
Cycle(v) == IF v = "" THEN "0" ELSE IF v = "0" THEN "1" ELSE ""

\* this step is a toggleCell request answered with the cell at c
ServerToggles(c) ==
    /\ pc = "idle"
    /\ op' = "toggleCell"
    /\ resp'.body = "cell"
    /\ c = <<Atoi(rowStr').val, Atoi(colStr').val>>

\* this step is the page's own toggleCell on the cell at c
ClientToggles(c) ==
    /\ pc = "idle"
    /\ pc' = "idle"
    /\ page'[c] # page[c]

\* C6: successive toggles of the same non-fixed cell cycle its value
\* empty -> 0 -> 1 -> empty: each toggle moves the cell's value one step along
\* the cycle, so from an empty cell the first toggle shows 0, the second 1 and
\* the third empty again.
C6_ToggleCycle ==
    [][\A c \in DOMAIN page :
          (~ page[c].readonly /\ (ServerToggles(c) \/ ClientToggles(c)))
              => page'[c].value = Cycle(page[c].value)]_vars

\* the handler's grid has an empty cell
HasEmptyCell(g) ==
    \E i \in 0..(Len0(g) - 1) : \E j \in 0..(Len0(g) - 1) : g[i][j].Value = Nil

\* C7: validate has three outcomes: a grid with an empty cell gets
\* "incomplete", a full grid that breaks a constraint gets "invalid", and the
\* other full grids get "valid".
C7_ValidateThreeOutcomes ==
    (op = "validate" /\ pc = "done" /\ err = "") =>
        resp.body = IF HasEmptyCell(grid) THEN "incomplete"
                    ELSE IF validateBinairo(grid, size) THEN "valid"
                    ELSE "invalid"

\* the request's gridSize field is a number that is zero or negative
SizeNotPositive == ~ Atoi(sizeStr).err /\ Atoi(sizeStr).val <= 0

\* the InvalidSize outcome: a 400 response for the size
InvalidSize ==
    /\ resp.status = 400
    /\ resp.body = "Invalid grid size" \/ err = "invalid grid size"

\* C8: every entry point called with size 0 or a negative size ends with the
\* InvalidSize outcome, builds no grid, does not run the solver and does not
\* panic.
C8_InvalidSizeEverywhere ==
    (op # "none" /\ SizeNotPositive) =>
        /\ pc = "done"
        /\ InvalidSize
        /\ grid = <<>>

\* a cell field of the request is not a number, or is a number other than 0
\* and 1
BadCellContent == \E c \in DOMAIN form : form[c] \notin {"", "0", "1"}

\* C9: solve fails with InvalidCellValue before the solver runs whenever a
\* supplied cell content is non-numeric or a number outside {0,1}; the solver
\* only runs on grids whose filled cells hold 0 or 1.
C9_SolveRejectsBadCells ==
    (op = "solve" /\ BadCellContent) =>
        /\ pc = "done"
        /\ resp.status = 400
        /\ err = "invalid cell value"

\* solveBinairo is called by its handler
SolverEntered == pc = "solve_call" /\ stack = <<>>

\* C10: when the search accepts no completion of the grid, solveBinairo
\* still returns, and at return every cell that was empty on entry is empty
\* again and every cell that was filled on entry is unchanged.
C10_UnsolvableRestored ==
    /\ []((SolverReturned /\ ~ ret) => grid = EntryGrid)
    /\ (SolverEntered ~> SolverReturned)

\* the solver has returned without a completion from a 3 x 3 grid that has
\* filled cells and empty cells
C10_Witness ==
    /\ SolverReturned
    /\ ~ ret
    /\ op = "solve"
    /\ size = 3
    /\ HasEmptyCell(grid)
    /\ grid # createGrid(size)

----------------------------------------------------------------------------
(* generate alone, with the handler's goroutine running on: every step of   *)
(* generateHandler that can be taken is taken                               *)

NextGenerate ==
    \/ GenerateLive
    \/ SolveCall
    \/ SolveReturn
    \/ \E seed \in 0..MaxSeed : GenerateSeed(seed)
    \/ GenerateDraw
    \/ GenerateRespond
    \/ Reload

SpecGenerate ==
    /\ Init
    /\ [][NextGenerate]_vars
    /\ WF_vars(SolveCall)
    /\ WF_vars(SolveReturn)
    /\ WF_vars(\E seed \in 0..MaxSeed : GenerateSeed(seed))
    /\ WF_vars(GenerateDraw)
    /\ WF_vars(GenerateRespond)

\* generateHandler has accepted the size and starts on the grid
GenerateEntered == op = "generate" /\ pc = "solve_call" /\ stack = <<>>

\* generateHandler has written its grid
GenerateReturned == op = "generate" /\ pc = "done" /\ resp.status = 200

\* C11: for every positive size n, odd sizes included, generate eventually
\* returns (with exactly floor(n*n/2) cells of the grid empty): the removal
\* loop cannot run forever.  The formula is the claim's termination: every
\* accepted generate request is eventually answered.
C11_GenerateReturns == GenerateEntered ~> GenerateReturned
====
